---- MODULE Spec2Model ----
(***************************************************************************)
(* The daily NAV stamp of Keyvault-Dashboards, in its three versions:      *)
(*   "hardened"  src/unnamed/part_001:153-421  (guards, atomic save,      *)
(*               90 s global timer, Telegram alerts)                      *)
(*   "vault"     src/scripts/daily-nav-stamp.js:1-205                     *)
(*   "prime"     src/scripts/daily-nav-stamp.js:207-359                   *)
(* A behaviour of Spec runs one version, again and again, on the same     *)
(* NAV_FILE.  Three more specifications share the definitions:            *)
(*   CalcSpec     the merge, the deviation check and the day change of    *)
(*                main on any stored history                              *)
(*   OverlapSpec  two runs of the hardened stamp that overlap             *)
(*   ShellSpec    daily-data-fetch.sh, src/unnamed/part_003:300-407       *)
(*                                                                         *)
(* JS numbers are exact rationals n/d in lowest terms, plus NaN, the two   *)
(* infinities and null.  A date is the digit string of YYYY-MM-DD (the     *)
(* dashes, at fixed positions, are left out).  The timestamp and           *)
(* basePriceRaw fields of a record are not modelled.                       *)
(***************************************************************************)
EXTENDS Integers, Sequences, FiniteSets, TLC

\* ------------------------------------------------------------------ bounds
MaxDay == 2

\* the days a stored history spans when main's checks are checked alone
MaxCalcDay == 5

\* --------------------------------------------------------- program constants
PRECISION == 1000000

\* ------------------------------------------------------------- JS numbers
Abs(x) == IF x < 0 THEN 0 - x ELSE x

RECURSIVE GCD(_, _)
GCD(a, b) == IF b = 0 THEN a ELSE GCD(b, a % b)

Num(n, d) ==
    LET g == GCD(Abs(n), d)
    IN  [k |-> "num", n |-> n \div g, d |-> d \div g]

NaN    == [k |-> "NaN", n |-> 0, d |-> 1]
PosInf == [k |-> "Infinity", n |-> 0, d |-> 1]
NegInf == [k |-> "-Infinity", n |-> 0, d |-> 1]
Null   == [k |-> "null", n |-> 0, d |-> 1]

IsNum(x) == x.k = "num"

\* a / b on JS numbers that are both finite
Div(a, b) ==
    IF b.n = 0
    THEN IF a.n > 0 THEN PosInf ELSE IF a.n < 0 THEN NegInf ELSE NaN
    ELSE IF b.n > 0 THEN Num(a.n * b.d, a.d * b.n)
                    ELSE Num((0 - a.n) * b.d, a.d * (0 - b.n))

\* x > c and x <= c for an integer c, with JS semantics: every comparison
\* with NaN is false
GtInt(x, c) ==
    \/ x.k = "Infinity"
    \/ IsNum(x) /\ x.n > c * x.d

LeInt(x, c) ==
    \/ x.k = "-Infinity"
    \/ IsNum(x) /\ x.n <= c * x.d

\* BN.toNumber() / PRECISION
FromBN(raw) == Num(raw, PRECISION)

\* JSON.stringify then JSON.parse of a number: NaN and the infinities are
\* written as null
ToJSON(x) == IF IsNum(x) THEN x ELSE Null

\* -------------------------------------------------------------------- dates
\* getESTDate: the calendar date of day number n, counted from 2026-02-27
\* (n = 1), as the digits of YYYY-MM-DD
getESTDate(n) ==
    LET dom   == 26 + n
        month == IF dom <= 28 THEN 2 ELSE 3
        day   == IF dom <= 28 THEN dom ELSE dom - 28
    IN  <<2, 0, 2, 6, month \div 10, month % 10, day \div 10, day % 10>>

Days == 1..MaxDay

\* String.prototype.localeCompare on two digit strings of equal length
RECURSIVE localeCompare(_, _)
localeCompare(a, b) ==
    IF a = <<>> \/ b = <<>>
    THEN IF a = b THEN 0 ELSE IF a = <<>> THEN 0 - 1 ELSE 1
    ELSE IF Head(a) < Head(b) THEN 0 - 1
    ELSE IF Head(a) > Head(b) THEN 1
    ELSE localeCompare(Tail(a), Tail(b))

\* ------------------------------------------------------------------ history
\* a findIndex that never finds the date
findIndex_never(hist, date) == 0 - 1

\* history.findIndex(h => h.date === date), 0-based, -1 when absent
findIndex(hist, date) ==
    LET hits == {i \in 1..Len(hist) : hist[i].date = date}
    IN  IF hits = {} THEN 0 - 1
        ELSE (CHOOSE i \in hits : \A j \in hits : i <= j) - 1

\* a sort that leaves the array as it is
sortByDate_off(hist) == hist

\* insert rec after the last element that does not compare greater
RECURSIVE InsertSorted(_, _)
InsertSorted(sorted, rec) ==
    IF sorted = <<>> THEN <<rec>>
    ELSE IF localeCompare(sorted[Len(sorted)].date, rec.date) <= 0
         THEN Append(sorted, rec)
         ELSE Append(InsertSorted(SubSeq(sorted, 1, Len(sorted) - 1), rec),
                     sorted[Len(sorted)])

\* history.sort((a, b) => a.date.localeCompare(b.date)); the sort is stable
RECURSIVE sortByDate(_)
sortByDate(hist) ==
    IF hist = <<>> THEN <<>>
    ELSE InsertSorted(sortByDate(SubSeq(hist, 1, Len(hist) - 1)), hist[Len(hist)])

\* an upsert that keeps the stored record of the date
upsert_keepOld(hist, rec) ==
    IF findIndex(hist, rec.date) >= 0 THEN hist ELSE Append(hist, rec)

\* replace the first record of the date, or push
upsert(hist, rec) ==
    LET existingIdx == findIndex(hist, rec.date)
    IN  IF existingIdx >= 0
        THEN [hist EXCEPT ![existingIdx + 1] = rec]
        ELSE Append(hist, rec)

\* the merge of main: upsert, then sort
merge(hist, rec) == sortByDate(upsert(hist, rec))


\* a history is valid when it is strictly ascending by date
StrictlyAscending(hist) ==
    \A i \in 1..(Len(hist) - 1) : localeCompare(hist[i].date, hist[i + 1].date) < 0

DatesOf(hist) == {hist[i].date : i \in 1..Len(hist)}

RecordsOf(hist) == {hist[i] : i \in 1..Len(hist)}

\* JSON.stringify(history) read back by JSON.parse
Serialize(hist) ==
    [i \in 1..Len(hist) |->
        [date          |-> hist[i].date,
         SharePrice    |-> ToJSON(hist[i].SharePrice),
         tvl           |-> ToJSON(hist[i].tvl),
         rawSharePrice |-> ToJSON(hist[i].rawSharePrice)]]

NoRecord == [date |-> <<>>, SharePrice |-> Null, tvl |-> Null, rawSharePrice |-> Null]

\* ---------------------------------------------------------------- the files
\* st: "absent", "ok" (a complete JSON document) or "torn" (a write was
\* started and not finished: the content is no valid JSON)
Absent == [st |-> "absent", data |-> <<>>]
Torn   == [st |-> "torn", data |-> <<>>]
Complete(hist) == [st |-> "ok", data |-> Serialize(hist)]

\* a loadHistory that keeps what it could parse of an unreadable file
loadHistory_partial(f, readThrows) ==
    IF f.st = "ok" /\ ~readThrows THEN f.data
    ELSE IF f.st = "ok" THEN SubSeq(f.data, 1, 1) ELSE <<>>

\* loadHistory: [] when the file is absent, and when reading or parsing throws
loadHistory(f, readThrows) ==
    IF f.st = "ok" /\ ~readThrows THEN f.data ELSE <<>>

\* ------------------------------------------------------------ the upstreams
\* a JS number (or null) is truthy unless it is 0, NaN or null
truthy(x) == x.k \in {"Infinity", "-Infinity"} \/ (IsNum(x) /\ x.n # 0)

\* on-chain vault readings: equity and totalShares as raw BN values.  They give
\* the share prices 1.1, 1.2, Infinity, NaN, 0 and 101
VaultReadings ==
    { [equity |-> 1100000,   totalShares |-> 1000000],
      [equity |-> 2400000,   totalShares |-> 2000000],
      [equity |-> 1000000,   totalShares |-> 0],
      [equity |-> 0,         totalShares |-> 0],
      [equity |-> 0,         totalShares |-> 1000000],
      [equity |-> 101000000, totalShares |-> 1000000] }

\* the readings a run of the script may get.  The vault stamp has no guard, so
\* each of its readings reaches the file: it is given one valid reading and
\* the two with totalShares = 0
ReadingsFor(scr) ==
    IF scr = "hardened" THEN VaultReadings
    ELSE {r \in VaultReadings : r.totalShares = 0 \/ r.equity = 1100000}

\* answers of app.primenumber.trade/data/PN_KV1.json; ok = FALSE stands for a
\* network error, a non-OK status or a timeout, Null for a missing field
ApiResponses ==
    { [ok |-> FALSE, tvl |-> Null, SharePrice |-> Null],
      [ok |-> TRUE,  tvl |-> Num(3340000, 1), SharePrice |-> Num(10021, 10000)],
      [ok |-> TRUE,  tvl |-> Null, SharePrice |-> Num(10021, 10000)],
      [ok |-> TRUE,  tvl |-> Num(0, 1), SharePrice |-> Num(10021, 10000)],
      [ok |-> TRUE,  tvl |-> Num(3340000, 1), SharePrice |-> Num(0, 1)],
      [ok |-> TRUE,  tvl |-> Num(1670000, 1), SharePrice |-> Num(10021, 10000)] }

\* the answers a run of the script may get: the vault stamp, which copies the
\* fields unchecked, is given the failure and the complete answer only; the
\* answer with half the TVL goes to the Prime Number stamp, the one script
\* that compares the TVL with the stored one
ResponsesFor(scr) ==
    CASE scr = "hardened" -> {r \in ApiResponses : r.SharePrice # Num(0, 1)
                                 /\ r.tvl \notin {Num(0, 1), Num(1670000, 1)}}
      [] scr = "vault"    -> {r \in ApiResponses : ~r.ok \/ (truthy(r.tvl) /\ truthy(r.SharePrice)
                                                           /\ r.tvl # Num(1670000, 1))}
      [] OTHER            -> ApiResponses

\* equityUSDC / totalShares
sharePriceOf(reading) == Div(FromBN(reading.equity), FromBN(reading.totalShares))

\* the guard on totalShares of the hardened fetchPublicVaultSharePrice
invalidTotalShares(reading) == FromBN(reading.totalShares).n <= 0

\* the sanity guard on the share price of the hardened fetchPublicVaultSharePrice
implausibleSharePrice(p) == ~IsNum(p) \/ LeInt(p, 0) \/ GtInt(p, 100)

\* does fetchPublicVaultSharePrice throw after the reading is in?
publicFetchThrows(scr, reading) ==
    /\ scr = "hardened"
    /\ \/ invalidTotalShares(reading)
       \/ implausibleSharePrice(sharePriceOf(reading))

\* the value fetchPrivateVaultTVL resolves to; Null stands for null
NoPrivate == [tvl |-> Null, rawSharePrice |-> Null]

\* a fetchPrivateVaultTVL that copies the fields of every OK answer, without
\* the check for a missing tvl or SharePrice
fetchPrivateVaultTVL_unchecked(scr, resp) ==
    IF ~resp.ok THEN NoPrivate
    ELSE [tvl |-> resp.tvl, rawSharePrice |-> resp.SharePrice]

fetchPrivateVaultTVL(scr, resp) ==
    IF ~resp.ok THEN NoPrivate
    ELSE IF scr = "hardened" /\ (~truthy(resp.tvl) \/ ~truthy(resp.SharePrice))
         THEN NoPrivate
         ELSE [tvl |-> resp.tvl, rawSharePrice |-> resp.SharePrice]

\* Promise.allSettled in the place of Promise.all: a rejection is a result
promiseAll_settled(pub, priv) ==
    IF pub \in {"resolved", "rejected"} /\ priv = "resolved" THEN "fulfilled"
    ELSE "pending"

\* Promise.all over the two fetches: rejected as soon as one is rejected
\* (fetchPrivateVaultTVL never rejects), fulfilled when both are resolved
promiseAll(pub, priv) ==
    IF pub = "rejected" THEN "rejected"
    ELSE IF pub = "resolved" /\ priv = "resolved" THEN "fulfilled"
    ELSE "pending"

\* ------------------------------------------------- the arithmetic of main
\* a value read as an operand of + : null counts as 0
ToNumber(x) == IF x.k = "null" THEN Num(0, 1) ELSE x

\* a + b on stored prices (finite numbers, or null)
Plus(a, b) ==
    LET x == ToNumber(a)
        y == ToNumber(b)
        l == (x.d \div GCD(x.d, y.d)) * y.d
    IN  IF IsNum(x) /\ IsNum(y)
        THEN Num(x.n * (l \div x.d) + y.n * (l \div y.d), l)
        ELSE NaN

\* a - b for a finite b
Minus(a, b) ==
    IF ~IsNum(b) \/ a.k \in {"NaN", "null"} THEN NaN
    ELSE IF ~IsNum(a) THEN a
    ELSE Plus(a, Num(0 - b.n, b.d))

\* Math.abs
MathAbs(x) ==
    IF x.k \in {"Infinity", "-Infinity"} THEN PosInf
    ELSE IF IsNum(x) THEN Num(Abs(x.n), x.d)
    ELSE NaN

\* a / b for a finite b
Over(a, b) ==
    IF ~IsNum(b) \/ a.k \in {"NaN", "null"} THEN NaN
    ELSE IF IsNum(a) THEN Div(a, b)
    ELSE IF (a.k = "Infinity") = (b.n >= 0) THEN PosInf ELSE NegInf

\* a * c for a positive integer c
TimesInt(a, c) == IF IsNum(a) THEN Num(a.n * c, a.d) ELSE a

\* a > b for a finite b; every comparison with NaN is false
Gt(a, b) ==
    \/ a.k = "Infinity"
    \/ IsNum(a) /\ a.n * b.d > b.n * a.d

\* Number.prototype.toFixed(4), as the number the digits stand for: the
\* nearest multiple of 0.0001
toFixed4(x) ==
    IF ~IsNum(x) THEN x
    ELSE LET q == (2 * Abs(x.n) * 10000 + x.d) \div (2 * x.d)
         IN  Num(IF x.n < 0 THEN 0 - q ELSE q, 10000)

\* array.slice(from, to) with 0 <= from, on a TLA+ sequence
slice(arr, from, to) ==
    IF to <= from THEN <<>> ELSE SubSeq(arr, from + 1, to)

Max(a, b) == IF a >= b THEN a ELSE b

\* history.map(h => h.SharePrice)
mapSharePrice(hist) == [i \in 1..Len(hist) |-> hist[i].SharePrice]

\* prices.filter(Boolean)
RECURSIVE filterBoolean(_)
filterBoolean(prices) ==
    IF prices = <<>> THEN <<>>
    ELSE IF truthy(Head(prices))
         THEN <<Head(prices)>> \o filterBoolean(Tail(prices))
         ELSE filterBoolean(Tail(prices))

\* prices.reduce((a, b) => a + b, 0)
RECURSIVE reduceSum(_)
reduceSum(prices) ==
    IF prices = <<>> THEN Num(0, 1)
    ELSE Plus(reduceSum(SubSeq(prices, 1, Len(prices) - 1)), prices[Len(prices)])

\* the records the hardened and the vault stamp average: the four before
\* today's, without the prices that are 0 or null
lastFew(hist, todayIdx) ==
    filterBoolean(mapSharePrice(slice(hist, Max(0, todayIdx - 4), todayIdx)))

\* the records the Prime Number stamp averages: the last five of the sorted
\* history, today's among them
lastFewPrices(hist) ==
    mapSharePrice(slice(hist, Max(0, Len(hist) - 5), Len(hist)))

\* the deviation threshold, 0.05
DEVIATION_LIMIT == Num(1, 20)

\* Math.abs(sharePrice - avg) / avg > 0.05 over the prices averaged
deviates(sharePrice, prices) ==
    LET avg == Over(reduceSum(prices), Num(Len(prices), 1))
        dev == Over(MathAbs(Minus(sharePrice, avg)), avg)
    IN  Gt(dev, DEVIATION_LIMIT)

\* the price deviation check of main: TRUE when the warning is raised
deviationCheck(scr, hist, rec) ==
    IF scr = "prime"
    THEN deviates(rec.SharePrice, lastFewPrices(hist))
    ELSE LET few == lastFew(hist, findIndex(hist, rec.date))
         IN  Len(few) > 0 /\ deviates(rec.SharePrice, few)

\* a day change taken relative to today's price
dayOverDay_ofToday(hist, rec) ==
    LET todayIdx == findIndex(hist, rec.date)
    IN  IF todayIdx > 0 /\ GtInt(hist[todayIdx].SharePrice, 0)
        THEN TimesInt(Over(Minus(rec.SharePrice, hist[todayIdx].SharePrice),
                           rec.SharePrice), 100)
        ELSE Null

\* the day change of main: null unless a record precedes today's and its
\* price is positive
dayOverDay(hist, rec) ==
    LET todayIdx == findIndex(hist, rec.date)
    IN  IF todayIdx > 0 /\ GtInt(hist[todayIdx].SharePrice, 0)
        THEN TimesInt(Over(Minus(rec.SharePrice, hist[todayIdx].SharePrice),
                           hist[todayIdx].SharePrice), 100)
        ELSE Null

\* the text N/A in the place of a number
NA == [k |-> "N/A", n |-> 0, d |-> 1]

\* changeStr of the success message: the day change with four decimals, or
\* N/A
changeStr(change) == IF change.k = "null" THEN NA ELSE toFixed4(change)

telegramMsg(scr, rec, alert, change) ==
    [alert          |-> scr = "hardened" /\ alert,
     change         |-> changeStr(change),
     tvlUnavailable |-> scr = "hardened" /\ ~truthy(rec.tvl)]

\* ---------------------------------------------------------------- the state
VARIABLES
    script,       \* the version of the stamp this behaviour runs
    hang,         \* the dependency that never answers, or "none"
    file,         \* NAV_FILE
    tmp,          \* NAV_FILE + '.tmp'
    fileAtStart,  \* NAV_FILE when the current run started
    exited,       \* "no", or the way the process ended
    mainPc,       \* where main (or its catch handler) stands
    pubPc,        \* where fetchPublicVaultSharePrice stands
    privPc,       \* where fetchPrivateVaultTVL stands
    timerPc,      \* the global timer
    vaultReading, \* the reading fetchPublicVaultSharePrice got
    publicVault,  \* the share price it resolved to
    privateVault, \* what fetchPrivateVaultTVL resolved to
    telegram,     \* per kind of message: "none", "inflight", "delivered", "failed"
    loaded,       \* what loadHistory returned
    history,      \* main's history array
    record,       \* main's record
    saveFailed,   \* the write or the rename of this run threw
    deviationAlert, \* main's deviationAlert: TRUE for a message, FALSE for null
    dayChange,    \* main's dayChange
    runs,         \* two overlapping runs of the hardened stamp
    step,         \* daily-data-fetch.sh: the step it stands at
    ERRORS,       \* daily-data-fetch.sh: its counter
    outcome,      \* daily-data-fetch.sh: per step "pending", "ok" or "failed"
    statusFile,   \* the "errors" field of data/fetch-status.json
    commitMsg,    \* the error count in the message of the commit
    exitStatus,   \* the exit status of daily-data-fetch.sh
    snapScript,   \* the snapshot script this behaviour runs: "jlp" or "trader"
    snapFile,     \* its snapshot file
    snapBefore,   \* the snapshot file when the last run started
    snapshot,     \* the snapshot of the last run
    snapExit,     \* the exit status of the last run
    snapRuns,     \* the runs so far
    dedupHist,    \* a stored history handed to the three merges
    dedupRec,     \* the record handed to them
    dedupOut,     \* what each of them returned
    alliumFiles,  \* allium-fees.json, allium-trader-pnl.json, trader-pnl-onchain.json
    alliumBefore, \* the three files when the run started
    alliumPc,     \* the Allium script: "fees", "pnl" (the query awaited) or "done"
    feesData,     \* its feesData
    pnlData,      \* its pnlData
    alliumError,  \* what main rejected with: "none", "auth" or "other"
    alliumExit,   \* its exit status
    alliumRuns,   \* the number of the run
    fundingFile,     \* drift-funding-rates.json: its "markets"
    fundingExisting, \* what the last run of the funding script parsed of it
    fundingFresh,    \* result.markets of the last run before the merge
    fundingExit,     \* the exit status of the last run
    fundingRuns      \* the runs so far, one a day

\* the variables of the orchestration script
shellVars == <<step, ERRORS, outcome, statusFile, commitMsg, exitStatus>>

\* the variables a single run of the stamp leaves alone
\* the variables of the snapshot scripts
snapVars == <<snapScript, snapFile, snapBefore, snapshot, snapExit, snapRuns>>

\* the variables of the comparison of the three merges
dedupVars == <<dedupHist, dedupRec, dedupOut>>

\* the variables of the data scripts
\* the variables of the Allium script
alliumVars == <<alliumFiles, alliumBefore, alliumPc, feesData, pnlData,
                alliumError, alliumExit, alliumRuns>>

\* the variables of the funding-rate script
fundingVars == <<fundingFile, fundingExisting, fundingFresh, fundingExit, fundingRuns>>

notStamp == <<runs, shellVars,
                 snapVars, dedupVars, alliumVars, fundingVars>>

vars == <<script, hang, file, tmp, fileAtStart, exited, mainPc, pubPc, privPc,
          timerPc, vaultReading, publicVault, privateVault, telegram, loaded,
          history, record, saveFailed, deviationAlert, dayChange, runs, step,
          ERRORS, outcome, statusFile, commitMsg, exitStatus,
                 snapVars, dedupVars, alliumVars, fundingVars>>

Scripts == {"hardened", "vault", "prime"}

NoReading == [equity |-> 0, totalShares |-> 0]

NoTelegram == [ok |-> "none", failed |-> "none", timeout |-> "none",
               msg |-> [alert |-> FALSE, change |-> NA, tvlUnavailable |-> FALSE]]

\* the state of a process that was just started
Fresh ==
    /\ exited = "no"
    /\ mainPc = "start"
    /\ pubPc = "idle"
    /\ privPc = "idle"
    /\ timerPc = IF script = "hardened" THEN "armed" ELSE "none"
    /\ vaultReading = NoReading
    /\ publicVault = NaN
    /\ privateVault = NoPrivate
    /\ telegram = NoTelegram
    /\ loaded = <<>>
    /\ history = <<>>
    /\ record = NoRecord
    /\ saveFailed = FALSE
    /\ deviationAlert = FALSE
    /\ dayChange = Null

InitFiles ==
    /\ file = Absent
    /\ tmp = Absent
    /\ fileAtStart = Absent

\* the two overlapping runs, before either has started
Runs == {1, 2}

NoRuns ==
    [r \in Runs |-> [pc |-> "idle", history |-> <<>>, record |-> NoRecord, fd |-> "none"]]

\* a value that is not there yet: the status file, the commit, the exit status
None == 0 - 1

\* the steps of daily-data-fetch.sh: six fetches (Drift funding, JLP snapshot,
\* trader P&L, Prime Number data, NAV stamp, DefiLlama fees), the status file,
\* the commit with its push, and the exit
STATUS_STEP == 7

COMMIT_STEP == 8

EXIT_STEP == 9

\* daily-data-fetch.sh before its first step: ERRORS=0
ShellStart ==
    /\ step = 1
    /\ ERRORS = 0
    /\ outcome = [s \in 1..COMMIT_STEP |-> "pending"]
    /\ statusFile = None
    /\ commitMsg = None
    /\ exitStatus = None

NoSnapshot == [date |-> <<>>, v |-> 0]

\* the three merges have not been applied
NoOut == [findIndex |-> <<>>, map |-> <<>>, filter |-> <<>>]

NoFiles == [fees |-> Absent, pnl |-> Absent, onchain |-> Absent]

MARKETS == {"SOL-PERP", "BTC-PERP", "ETH-PERP"}

NoMarkets == [name \in MARKETS |-> <<>>]

\* every script but the active one has not run: each process starts with its
\* own variables and touches no file of another script
Parked(active) ==
    /\ IF active = "stamp" THEN TRUE
       ELSE /\ script = "hardened"
            /\ hang = "none"
            /\ file = Absent /\ tmp = Absent /\ fileAtStart = Absent
            /\ Fresh
            /\ runs = NoRuns
            /\ ShellStart
    /\ IF active = "snapshot" THEN TRUE
       ELSE /\ snapScript = "none"
            /\ snapFile = Absent
            /\ snapBefore = Absent
            /\ snapshot = NoSnapshot
            /\ snapExit = None
            /\ snapRuns = 0
    /\ IF active = "dedup" THEN TRUE
       ELSE /\ dedupHist = <<>>
            /\ dedupRec = NoSnapshot
            /\ dedupOut = NoOut
    /\ IF active = "allium" THEN TRUE
       ELSE /\ alliumFiles = NoFiles
            /\ alliumBefore = NoFiles
            /\ alliumPc = "off"
            /\ feesData = <<>>
            /\ pnlData = <<>>
            /\ alliumError = "none"
            /\ alliumExit = None
            /\ alliumRuns = 0
    /\ IF active = "funding" THEN TRUE
       ELSE /\ fundingFile = Absent
            /\ fundingExisting = [parsed |-> FALSE, markets |-> NoMarkets]
            /\ fundingFresh = NoMarkets
            /\ fundingExit = None
            /\ fundingRuns = 0

Init ==
    /\ script \in Scripts
    /\ hang = "none"
    /\ InitFiles
    /\ Fresh
    /\ runs = NoRuns
    /\ ShellStart
    /\ Parked("stamp")

LiveInit ==
    /\ script \in Scripts
    /\ hang \in {"none", "subscribe", "vault", "private", "telegram"}
    /\ InitFiles
    /\ Fresh
    /\ runs = NoRuns
    /\ ShellStart
    /\ Parked("stamp")

\* the exit status of the process
ExitCode(how) ==
    CASE how = "main"    -> 0
      [] how = "natural" -> 0
      [] how = "catch"   -> 1
      [] how = "token"   -> 1
      [] how = "timer"   -> 2
      [] OTHER           -> 137

\* main is parked at an await: only then can a timer or an I/O callback run
MainSuspended ==
    \/ mainPc \in {"awaitOkSend", "awaitFailSend"}
    \/ mainPc = "awaitAll" /\ promiseAll(pubPc, privPc) = "pending"

\* main rejects: the handler of main().catch runs up to its first await
\* (hardened, vault), or to its process.exit(1) (prime)
EnterCatch ==
    IF script = "prime"
    THEN /\ exited' = "catch"
         /\ UNCHANGED <<mainPc, telegram>>
    ELSE /\ mainPc' = "awaitFailSend"
         /\ telegram' = [telegram EXCEPT !.failed = "inflight"]
         /\ UNCHANGED exited

\* ------------------------------------------------------------------ actions
\* the hardened stamp exits at load time when no Telegram token is configured
TokenMissing ==
    /\ script = "hardened" /\ exited = "no" /\ mainPc = "start"
    /\ exited' = "token"
    /\ UNCHANGED <<script, hang, file, tmp, fileAtStart, mainPc, pubPc, privPc,
                   timerPc, vaultReading, publicVault, privateVault, telegram,
                   loaded, history, record, saveFailed>>
    /\ UNCHANGED <<deviationAlert, dayChange, notStamp>>

\* main starts the two fetches and awaits Promise.all (hardened, vault), or
\* awaits its one fetch (prime)
CallMain ==
    /\ exited = "no" /\ mainPc = "start"
    /\ IF script = "prime"
       THEN /\ mainPc' = "awaitFetch"
            /\ UNCHANGED <<pubPc, privPc>>
       ELSE /\ mainPc' = "awaitAll"
            /\ pubPc' = "subscribe"
            /\ privPc' = "fetch"
    /\ UNCHANGED <<script, hang, file, tmp, fileAtStart, exited, timerPc,
                   vaultReading, publicVault, privateVault, telegram, loaded,
                   history, record, saveFailed>>
    /\ UNCHANGED <<deviationAlert, dayChange, notStamp>>

\* fetchPublicVaultSharePrice throws: Promise.all rejects, main rejects
PublicReject ==
    /\ pubPc' = "rejected"
    /\ vaultReading' = NoReading
    /\ IF promiseAll("rejected", privPc) = "rejected"
       THEN EnterCatch
       ELSE UNCHANGED <<exited, mainPc, telegram>>
    /\ UNCHANGED <<script, hang, file, tmp, fileAtStart, privPc, timerPc,
                   publicVault, privateVault, loaded, history, record, saveFailed>>

\* await driftClient.subscribe()
SubscribeDone ==
    /\ exited = "no" /\ pubPc = "subscribe" /\ MainSuspended
    /\ hang # "subscribe"
    /\ \E ok \in BOOLEAN :
         IF ok
         THEN /\ pubPc' = "vaultFetch"
              /\ UNCHANGED <<script, hang, file, tmp, fileAtStart, exited, mainPc,
                             privPc, timerPc, vaultReading, publicVault,
                             privateVault, telegram, loaded, history, record,
                             saveFailed>>
         ELSE PublicReject
    /\ UNCHANGED <<deviationAlert, dayChange, notStamp>>

\* await Promise.all([calculateVaultEquityInDepositAsset, vault.fetch])
VaultFetchDone ==
    /\ exited = "no" /\ pubPc = "vaultFetch" /\ MainSuspended
    /\ hang # "vault"
    /\ \/ \E r \in ReadingsFor(script) :
            /\ vaultReading' = r
            /\ pubPc' = "unsubscribe"
            /\ UNCHANGED <<script, hang, file, tmp, fileAtStart, exited, mainPc,
                           privPc, timerPc, publicVault, privateVault, telegram,
                           loaded, history, record, saveFailed>>
       \/ PublicReject
    /\ UNCHANGED <<deviationAlert, dayChange, notStamp>>

\* await driftClient.unsubscribe(), then the guards and the return
UnsubscribeDone ==
    /\ exited = "no" /\ pubPc = "unsubscribe" /\ MainSuspended
    /\ \E ok \in BOOLEAN :
         IF ok /\ ~publicFetchThrows(script, vaultReading)
         THEN /\ publicVault' = sharePriceOf(vaultReading)
              /\ vaultReading' = NoReading
              /\ pubPc' = "resolved"
              /\ UNCHANGED <<script, hang, file, tmp, fileAtStart, exited, mainPc,
                             privPc, timerPc, privateVault, telegram, loaded,
                             history, record, saveFailed>>
         ELSE PublicReject
    /\ UNCHANGED <<deviationAlert, dayChange, notStamp>>

\* fetchPrivateVaultTVL settles; it never rejects.  The hardened stamp aborts
\* the request after 15 s, the vault stamp waits for as long as it takes
PrivateFetchDone ==
    /\ exited = "no" /\ privPc = "fetch"
    /\ MainSuspended
    /\ \E resp \in ResponsesFor(script) :
         /\ hang = "private" => script = "hardened" /\ ~resp.ok
         /\ privateVault' = fetchPrivateVaultTVL(script, resp)
    /\ privPc' = "resolved"
    /\ UNCHANGED <<script, hang, file, tmp, fileAtStart, exited, mainPc, pubPc,
                   timerPc, vaultReading, publicVault, telegram, loaded, history,
                   record, saveFailed>>
    /\ UNCHANGED <<deviationAlert, dayChange, notStamp>>

\* the record main builds from the two fetch results
buildRecord(day, pub, priv) ==
    [date          |-> getESTDate(day),
     SharePrice    |-> pub,
     tvl           |-> priv.tvl,
     rawSharePrice |-> priv.rawSharePrice]

\* Promise.all is fulfilled: main runs on, synchronously, through loadHistory,
\* the record, the merge and the sort, up to the save
MainResume ==
    /\ exited = "no" /\ mainPc = "awaitAll"
    /\ promiseAll(pubPc, privPc) = "fulfilled"
    /\ \E day \in Days, readThrows \in BOOLEAN :
         /\ loaded' = loadHistory(file, readThrows)
         /\ record' = buildRecord(day, publicVault, privateVault)
         /\ history' = merge(loaded', record')
         /\ deviationAlert' = deviationCheck(script, history', record')
         /\ dayChange' = dayOverDay(history', record')
    /\ mainPc' = "save"
    /\ UNCHANGED <<script, hang, file, tmp, fileAtStart, exited, pubPc, privPc,
                   timerPc, vaultReading, publicVault, privateVault, telegram,
                   saveFailed>>
    /\ UNCHANGED notStamp

\* NORMALIZATION_RATIO = 1.1909 of the Prime Number stamp
NORMALIZATION_RATIO == Num(11909, 10000)

\* typeof x !== 'number' || x <= 0
notPositiveNumber(x) == ~IsNum(x) \/ x.n <= 0

\* a validation that leaves the TVL out
primeFetchThrows_noTvl(resp) ==
    \/ ~resp.ok
    \/ notPositiveNumber(resp.SharePrice)

\* the checks of the Prime Number stamp on the API answer
primeFetchThrows(resp) ==
    \/ ~resp.ok
    \/ notPositiveNumber(resp.SharePrice)
    \/ notPositiveNumber(resp.tvl)

\* the TVL check of the Prime Number stamp against the last stored entry:
\* (prevEntry.tvl - vault.tvl) / prevEntry.tvl > 0.40.  It logs a warning
tvlDropWarns(hist, tvl) ==
    /\ Len(hist) > 0
    /\ LET prev == hist[Len(hist)].tvl
       IN /\ truthy(prev) /\ Gt(prev, Num(0, 1))
          /\ Gt(Over(Minus(ToNumber(prev), tvl), ToNumber(prev)), Num(2, 5))

primeRecord(day, resp) ==
    [date          |-> getESTDate(day),
     SharePrice    |-> Num(resp.SharePrice.n * NORMALIZATION_RATIO.n,
                          resp.SharePrice.d * NORMALIZATION_RATIO.d),
     tvl           |-> resp.tvl,
     rawSharePrice |-> resp.SharePrice]

\* the Prime Number stamp: the API answers; main validates, loads, merges, sorts
PrimeFetchDone ==
    /\ script = "prime" /\ exited = "no" /\ mainPc = "awaitFetch"
    /\ hang # "private"
    /\ \E resp \in ResponsesFor(script) :
         IF primeFetchThrows(resp)
         THEN /\ EnterCatch
              /\ UNCHANGED <<loaded, record, history, deviationAlert, dayChange>>
         ELSE /\ \E day \in Days, readThrows \in BOOLEAN :
                   /\ loaded' = loadHistory(file, readThrows)
                   /\ record' = primeRecord(day, resp)
                   /\ history' = merge(loaded', record')
                   /\ deviationAlert' = deviationCheck(script, history', record')
                   /\ dayChange' = dayOverDay(history', record')
              /\ mainPc' = "save"
              /\ UNCHANGED <<exited, telegram>>
    /\ UNCHANGED <<script, hang, file, tmp, fileAtStart, pubPc, privPc, timerPc,
                   vaultReading, publicVault, privateVault, saveFailed>>
    /\ UNCHANGED notStamp

\* the path fs.writeFileSync writes: the temporary file in the hardened stamp,
\* NAV_FILE itself in the other two
WritesTmp == script = "hardened"

\* a success message that leaves the price alert out
AfterSave_noAlert ==
    IF script = "prime"
    THEN /\ exited' = "natural"
         /\ UNCHANGED <<mainPc, telegram>>
    ELSE /\ mainPc' = "awaitOkSend"
         /\ telegram' = [telegram EXCEPT
                            !.ok = "inflight",
                            !.msg = telegramMsg(script, record, FALSE, dayChange)]
         /\ UNCHANGED exited

\* what follows a completed save: the success message is sent and awaited
\* (hardened, vault); main returns and the process ends (prime)
AfterSave ==
    IF script = "prime"
    THEN /\ exited' = "natural"
         /\ UNCHANGED <<mainPc, telegram>>
    ELSE /\ mainPc' = "awaitOkSend"
         /\ telegram' = [telegram EXCEPT
                            !.ok = "inflight",
                            !.msg = telegramMsg(script, record, deviationAlert,
                                                dayChange)]
         /\ UNCHANGED exited

\* mkdirSync, and writeFileSync opens and truncates its target
BeginWrite ==
    /\ exited = "no" /\ mainPc = "save"
    /\ \E ok \in BOOLEAN :
         IF ok
         THEN /\ IF WritesTmp
                 THEN tmp' = Torn /\ UNCHANGED file
                 ELSE file' = Torn /\ UNCHANGED tmp
              /\ mainPc' = "writing"
              /\ UNCHANGED <<exited, telegram, saveFailed>>
         ELSE /\ saveFailed' = TRUE
              /\ EnterCatch
              /\ UNCHANGED <<file, tmp>>
    /\ UNCHANGED <<script, hang, fileAtStart, pubPc, privPc, timerPc, vaultReading,
                   publicVault, privateVault, loaded, history, record>>
    /\ UNCHANGED <<deviationAlert, dayChange, notStamp>>

\* writeFileSync writes the whole document, or throws half way
EndWrite ==
    /\ exited = "no" /\ mainPc = "writing"
    /\ \E ok \in BOOLEAN :
         IF ok
         THEN /\ IF WritesTmp
                 THEN /\ tmp' = Complete(history)
                      /\ mainPc' = "rename"
                      /\ UNCHANGED <<file, exited, telegram>>
                 ELSE /\ file' = Complete(history)
                      /\ AfterSave
                      /\ UNCHANGED tmp
              /\ UNCHANGED saveFailed
         ELSE /\ saveFailed' = TRUE
              /\ EnterCatch
              /\ UNCHANGED <<file, tmp>>
    /\ UNCHANGED <<script, hang, fileAtStart, pubPc, privPc, timerPc, vaultReading,
                   publicVault, privateVault, loaded, history, record>>
    /\ UNCHANGED <<deviationAlert, dayChange, notStamp>>

\* fs.renameSync(tmp, NAV_FILE)
Rename ==
    /\ exited = "no" /\ mainPc = "rename"
    /\ \E ok \in BOOLEAN :
         IF ok
         THEN /\ file' = tmp
              /\ tmp' = Absent
              /\ AfterSave
              /\ UNCHANGED saveFailed
         ELSE /\ saveFailed' = TRUE
              /\ EnterCatch
              /\ UNCHANGED <<file, tmp>>
    /\ UNCHANGED <<script, hang, fileAtStart, pubPc, privPc, timerPc, vaultReading,
                   publicVault, privateVault, loaded, history, record>>
    /\ UNCHANGED <<deviationAlert, dayChange, notStamp>>

\* the answer to a sendMessage request: delivered, or not (the API says not
\* ok, or fetch throws); sendTelegram swallows both failures
SendOutcomes == {"delivered", "failed"}

\* a sendTelegram without its try/catch: a send that fails rejects main, and
\* the handler of main().catch takes over
OkSendDone_rethrow ==
    /\ exited = "no" /\ mainPc = "awaitOkSend" /\ telegram.ok = "inflight"
    /\ hang # "telegram"
    /\ \E out \in SendOutcomes :
         IF out = "delivered"
         THEN /\ telegram' = [telegram EXCEPT !.ok = out]
              /\ timerPc' = IF timerPc = "armed" THEN "cleared" ELSE timerPc
              /\ exited' = "main"
              /\ UNCHANGED mainPc
         ELSE /\ telegram' = [telegram EXCEPT !.ok = out, !.failed = "inflight"]
              /\ mainPc' = "awaitFailSend"
              /\ UNCHANGED <<timerPc, exited>>
    /\ UNCHANGED <<script, hang, file, tmp, fileAtStart, pubPc, privPc,
                   vaultReading, publicVault, privateVault, loaded, history,
                   record, saveFailed>>
    /\ UNCHANGED <<deviationAlert, dayChange, notStamp>>

\* the success message is answered: clearTimeout, process.exit(0)
OkSendDone ==
    /\ exited = "no" /\ mainPc = "awaitOkSend" /\ telegram.ok = "inflight"
    /\ hang # "telegram"
    /\ \E out \in SendOutcomes : telegram' = [telegram EXCEPT !.ok = out]
    /\ timerPc' = IF timerPc = "armed" THEN "cleared" ELSE timerPc
    /\ exited' = "main"
    /\ UNCHANGED <<script, hang, file, tmp, fileAtStart, mainPc, pubPc, privPc,
                   vaultReading, publicVault, privateVault, loaded, history,
                   record, saveFailed>>
    /\ UNCHANGED <<deviationAlert, dayChange, notStamp>>

\* the failure message is answered: process.exit(1)
FailSendDone ==
    /\ exited = "no" /\ mainPc = "awaitFailSend" /\ telegram.failed = "inflight"
    /\ hang # "telegram"
    /\ \E out \in SendOutcomes : telegram' = [telegram EXCEPT !.failed = out]
    /\ exited' = "catch"
    /\ UNCHANGED <<script, hang, file, tmp, fileAtStart, mainPc, pubPc, privPc,
                   timerPc, vaultReading, publicVault, privateVault, loaded,
                   history, record, saveFailed>>
    /\ UNCHANGED <<deviationAlert, dayChange, notStamp>>

\* the global timer fires after SCRIPT_TIMEOUT_MS: its callback sends the
\* timeout message and awaits the answer
TimerFire ==
    /\ exited = "no" /\ timerPc = "armed" /\ MainSuspended
    /\ timerPc' = "awaitSend"
    /\ telegram' = [telegram EXCEPT !.timeout = "inflight"]
    /\ UNCHANGED <<script, hang, file, tmp, fileAtStart, exited, mainPc, pubPc,
                   privPc, vaultReading, publicVault, privateVault, loaded,
                   history, record, saveFailed>>
    /\ UNCHANGED <<deviationAlert, dayChange, notStamp>>

\* the timeout message is answered: process.exit(2)
TimerSendDone ==
    /\ exited = "no" /\ timerPc = "awaitSend" /\ telegram.timeout = "inflight"
    /\ MainSuspended
    /\ hang # "telegram"
    /\ \E out \in SendOutcomes : telegram' = [telegram EXCEPT !.timeout = out]
    /\ exited' = "timer"
    /\ UNCHANGED <<script, hang, file, tmp, fileAtStart, mainPc, pubPc, privPc,
                   timerPc, vaultReading, publicVault, privateVault, loaded,
                   history, record, saveFailed>>
    /\ UNCHANGED <<deviationAlert, dayChange, notStamp>>

\* the process is killed (SIGKILL, power loss) at any point of the save
Kill ==
    /\ exited = "no" /\ mainPc \in {"save", "writing", "rename"}
    /\ exited' = "killed"
    /\ UNCHANGED <<script, hang, file, tmp, fileAtStart, mainPc, pubPc, privPc,
                   timerPc, vaultReading, publicVault, privateVault, telegram,
                   loaded, history, record, saveFailed>>
    /\ UNCHANGED <<deviationAlert, dayChange, notStamp>>

\* the scheduler starts the next run.  A temporary file left behind by the
\* run before is stale: no run reads it before writeFileSync truncates it, so
\* it is kept as a file without a valid content
NextRun ==
    /\ exited # "no"
    /\ UNCHANGED <<script, hang, file>>
    /\ tmp' = IF tmp.st = "absent" THEN tmp ELSE Torn
    /\ fileAtStart' = file
    /\ exited' = "no"
    /\ mainPc' = "start"
    /\ pubPc' = "idle"
    /\ privPc' = "idle"
    /\ timerPc' = IF script = "hardened" THEN "armed" ELSE "none"
    /\ vaultReading' = NoReading
    /\ publicVault' = NaN
    /\ privateVault' = NoPrivate
    /\ telegram' = NoTelegram
    /\ loaded' = <<>>
    /\ history' = <<>>
    /\ record' = NoRecord
    /\ saveFailed' = FALSE
    /\ deviationAlert' = FALSE
    /\ dayChange' = Null
    /\ UNCHANGED notStamp

Next ==
    \/ TokenMissing
    \/ CallMain
    \/ SubscribeDone
    \/ VaultFetchDone
    \/ UnsubscribeDone
    \/ PrivateFetchDone
    \/ MainResume
    \/ PrimeFetchDone
    \/ BeginWrite
    \/ EndWrite
    \/ Rename
    \/ OkSendDone
    \/ FailSendDone
    \/ TimerFire
    \/ TimerSendDone
    \/ Kill
    \/ NextRun

Spec == Init /\ [][Next]_vars

\* every step of the program, and every answer of a dependency that is not the
\* hung one, eventually happens; a kill and the next run need not
ProgramStep ==
    \/ TokenMissing
    \/ CallMain
    \/ SubscribeDone
    \/ VaultFetchDone
    \/ UnsubscribeDone
    \/ PrivateFetchDone
    \/ MainResume
    \/ PrimeFetchDone
    \/ BeginWrite
    \/ EndWrite
    \/ Rename
    \/ OkSendDone
    \/ FailSendDone
    \/ TimerFire
    \/ TimerSendDone

LiveSpec == LiveInit /\ [][Next]_vars /\ WF_vars(ProgramStep)

\* ------------------------------------------ main's checks on any history
\* The synchronous block of main, from the merge to the success message, on
\* stored histories of up to MaxCalcDay records and on the prices below.  No
\* price lies on the 5% threshold, where a double and a rational could differ.
FirstCalcDay == 0 - 9

CalcDays == FirstCalcDay..(FirstCalcDay + MaxCalcDay - 1)

\* no record stored for the day
NoPrice == [k |-> "absent", n |-> 0, d |-> 1]

stamped(day, price) ==
    [date |-> getESTDate(day), SharePrice |-> price, tvl |-> Null,
     rawSharePrice |-> Null]

\* the stored history that holds, in the order of the days, a record for each
\* of the first n days that has a price in f
RECURSIVE HistoryOf(_, _)
HistoryOf(f, n) ==
    IF n = 0 THEN <<>>
    ELSE LET day == FirstCalcDay + n - 1
         IN  IF f[day] = NoPrice THEN HistoryOf(f, n - 1)
             ELSE Append(HistoryOf(f, n - 1), stamped(day, f[day]))

CalcInit ==
    /\ script \in {"hardened", "prime"}
    /\ hang = "none"
    /\ \E f \in [CalcDays -> {Num(11, 10), Num(6, 5), Null, NoPrice}] :
          loaded = HistoryOf(f, MaxCalcDay)
    /\ file = Complete(loaded)
    /\ fileAtStart = file
    /\ tmp = Absent
    /\ exited = "no"
    /\ mainPc = "awaitAll"
    /\ pubPc = "resolved"
    /\ privPc = "resolved"
    /\ timerPc = IF script = "hardened" THEN "armed" ELSE "none"
    /\ vaultReading = NoReading
    /\ publicVault = NaN
    /\ privateVault = NoPrivate
    /\ telegram = NoTelegram
    /\ history = <<>>
    /\ record = NoRecord
    /\ saveFailed = FALSE
    /\ deviationAlert = FALSE
    /\ dayChange = Null
    /\ runs = NoRuns
    /\ ShellStart
    /\ Parked("stamp")

\* main merges today's record, checks the deviation, computes the day change
\* and builds its message
Reconcile ==
    /\ mainPc = "awaitAll" /\ record = NoRecord
    /\ \E day \in CalcDays, price \in {Num(113, 100), Num(6, 5), Num(5, 4)} :
         /\ record' = stamped(day, price)
         /\ history' = merge(loaded, record')
         /\ deviationAlert' = deviationCheck(script, history', record')
         /\ dayChange' = dayOverDay(history', record')
         /\ telegram' = [telegram EXCEPT
                            !.msg = telegramMsg(script, record', deviationAlert',
                                                dayChange')]
    /\ mainPc' = "save"
    /\ UNCHANGED <<script, hang, file, tmp, fileAtStart, exited, pubPc, privPc,
                   timerPc, vaultReading, publicVault, privateVault, loaded,
                   saveFailed, notStamp>>

CalcNext == Reconcile

CalcSpec == CalcInit /\ [][CalcNext]_vars

\* ------------------------------------------------- two runs that overlap
\* Two processes of the hardened stamp on the same NAV_FILE and the same
\* NAV_FILE + '.tmp'.  Inside one process the load, the merge and the save are
\* one synchronous block; between two processes the system calls interleave:
\* the read of loadHistory, the open (with truncation) and the write of
\* writeFileSync, and the rename.  fd tells under which name the file a run
\* has open is reachable: "tmp", "nav" once another run has renamed it, "gone"
\* once it has been replaced.
overlapIdle == <<script, hang, fileAtStart, exited, mainPc, pubPc, privPc, timerPc,
                 vaultReading, publicVault, privateVault, telegram, loaded,
                 history, record, saveFailed, deviationAlert, dayChange,
                 shellVars,
                 snapVars, dedupVars, alliumVars, fundingVars>>

OverlapInit ==
    /\ script = "hardened"
    /\ hang = "none"
    /\ file \in {Absent} \cup {Complete(<<stamped(day, Num(11, 10))>>) : day \in Days}
    /\ fileAtStart = file
    /\ tmp = Absent
    /\ Fresh
    /\ runs = NoRuns
    /\ ShellStart
    /\ Parked("stamp")

\* main of run r builds its record, loads the history and merges
RunLoad(r) ==
    /\ runs[r].pc = "idle"
    /\ \E day \in Days, price \in {Num(11, 10), Num(6, 5)} :
         runs' = [runs EXCEPT
                    ![r].record = stamped(day, price),
                    ![r].history = merge(loadHistory(file, FALSE),
                                         stamped(day, price)),
                    ![r].pc = "loaded"]
    /\ UNCHANGED <<file, tmp, overlapIdle>>

\* writeFileSync of run r opens NAV_FILE + '.tmp': the file is created, or
\* truncated when it is there
RunOpenTmp(r) ==
    /\ runs[r].pc = "loaded"
    /\ tmp' = Torn
    /\ runs' = [runs EXCEPT ![r].pc = "writing", ![r].fd = "tmp"]
    /\ UNCHANGED <<file, overlapIdle>>

\* what the file run r has open holds after r has written its document from
\* offset 0: the document, unless the other run has written a different one
\* into the same file since the truncation; then the result depends on the
\* two lengths and may be no valid document
Written(r, before) ==
    IF before.st = "ok" /\ before # Complete(runs[r].history)
    THEN {Complete(runs[r].history), Torn}
    ELSE {Complete(runs[r].history)}

\* writeFileSync of run r writes the document and closes the file
RunWriteTmp(r) ==
    /\ runs[r].pc = "writing"
    /\ CASE runs[r].fd = "tmp" ->
              /\ tmp' \in Written(r, tmp)
              /\ UNCHANGED file
         [] runs[r].fd = "nav" ->
              /\ file' \in Written(r, file)
              /\ UNCHANGED tmp
         [] OTHER ->
              UNCHANGED <<file, tmp>>
    /\ runs' = [runs EXCEPT ![r].pc = "rename", ![r].fd = "none"]
    /\ UNCHANGED overlapIdle

\* the name under which an open file is reachable after tmp was renamed
afterRename(fd) ==
    CASE fd = "tmp" -> "nav"
      [] fd = "nav" -> "gone"
      [] OTHER      -> fd

\* renameSync of run r: ENOENT when the other run has renamed the temporary
\* file away; the run then fails
RunRename(r) ==
    /\ runs[r].pc = "rename"
    /\ IF tmp.st = "absent"
       THEN /\ runs' = [runs EXCEPT ![r].pc = "failed"]
            /\ UNCHANGED <<file, tmp>>
       ELSE /\ file' = tmp
            /\ tmp' = Absent
            /\ runs' = [q \in Runs |->
                          IF q = r THEN [runs[q] EXCEPT !.pc = "done"]
                          ELSE [runs[q] EXCEPT !.fd = afterRename(runs[q].fd)]]
    /\ UNCHANGED overlapIdle

OverlapNext ==
    \E r \in Runs :
        \/ RunLoad(r)
        \/ RunOpenTmp(r)
        \/ RunWriteTmp(r)
        \/ RunRename(r)

OverlapSpec == OverlapInit /\ [][OverlapNext]_vars

\* ------------------------------------------------- daily-data-fetch.sh
\* The script has no set -e: each fetch is the condition of an if, whose else
\* branch counts the failure.  A step is a child process that returns an exit
\* status; step 4 is two curl calls joined by &&, ok when both are.
stampVars == <<script, hang, file, tmp, fileAtStart, exited, mainPc, pubPc, privPc,
               timerPc, vaultReading, publicVault, privateVault, telegram, loaded,
               history, record, saveFailed, deviationAlert, dayChange>>

ShellInit ==
    /\ script = "hardened"
    /\ hang = "none"
    /\ InitFiles
    /\ Fresh
    /\ runs = NoRuns
    /\ ShellStart
    /\ Parked("stamp")

\* every failed step counts
counted_all(s) == TRUE

\* the else branch of the step has ERRORS=$((ERRORS + 1)): steps 1 to 5, not
\* the DefiLlama step
counted(s) == s <= 5

\* one fetch step: run the command, report, count
RunStep ==
    /\ step \in 1..6
    /\ \E ok \in BOOLEAN :
         /\ outcome' = [outcome EXCEPT ![step] = IF ok THEN "ok" ELSE "failed"]
         /\ ERRORS' = IF ~ok /\ counted(step) THEN ERRORS + 1 ELSE ERRORS
    /\ step' = step + 1
    /\ UNCHANGED <<statusFile, commitMsg, exitStatus, stampVars, runs,
                 snapVars, dedupVars, alliumVars, fundingVars>>

\* cat > data/fetch-status.json: the file gets the counter, unless the
\* redirection fails
WriteStatus ==
    /\ step = STATUS_STEP
    /\ \E ok \in BOOLEAN :
         /\ outcome' = [outcome EXCEPT ![step] = IF ok THEN "ok" ELSE "failed"]
         /\ statusFile' = IF ok THEN ERRORS ELSE statusFile
    /\ step' = step + 1
    /\ UNCHANGED <<ERRORS, commitMsg, exitStatus, stampVars, runs,
                 snapVars, dedupVars, alliumVars, fundingVars>>

\* git add, git commit (which fails when nothing changed), git push
CommitAndPush ==
    /\ step = COMMIT_STEP
    /\ \E ok \in BOOLEAN :
         /\ outcome' = [outcome EXCEPT ![step] = IF ok THEN "ok" ELSE "failed"]
         /\ commitMsg' = IF ok THEN ERRORS ELSE commitMsg
    /\ step' = step + 1
    /\ UNCHANGED <<ERRORS, statusFile, exitStatus, stampVars, runs,
                 snapVars, dedupVars, alliumVars, fundingVars>>

\* exit $ERRORS
ShellExit ==
    /\ step = EXIT_STEP
    /\ exitStatus' = ERRORS % 256
    /\ step' = step + 1
    /\ UNCHANGED <<ERRORS, outcome, statusFile, commitMsg, stampVars, runs,
                 snapVars, dedupVars, alliumVars, fundingVars>>

ShellNext ==
    \/ RunStep
    \/ WriteStatus
    \/ CommitAndPush
    \/ ShellExit

ShellSpec == ShellInit /\ [][ShellNext]_vars

\* ------------------------------------------------- the snapshot scripts
\* The JLP snapshot script and the trader P&L snapshot script take one snapshot
\* per run and keep one per date in a JSON file they rewrite in place.  A
\* snapshot is its date and v, which stands for the fetched figures: the
\* number of the run that took it (0 for a snapshot of the start state).
MaxSnapRuns == 3

\* a file holding the JSON of a list
Stored(list) == [st |-> "ok", data |-> list]

\* map[date] = value on a map kept as the list of its values in insertion
\* order of the keys
assign(map, value) ==
    LET idx == findIndex(map, value.date)
    IN  IF idx >= 0 THEN [map EXCEPT ![idx + 1] = value] ELSE Append(map, value)

\* Object.values(byDate) after byDate[s.date] = s for each s of list, in turn
RECURSIVE objectValues(_)
objectValues(list) ==
    IF list = <<>> THEN <<>>
    ELSE assign(objectValues(SubSeq(list, 1, Len(list) - 1)), list[Len(list)])

\* a map that keeps the first value assigned to a date
byDate_firstWins(snapshots, snap) ==
    sortByDate(objectValues(<<snap>> \o snapshots))

\* JLP: byDate keyed by date, the new snapshot assigned last, then the sort
byDate(snapshots, snap) ==
    sortByDate(objectValues(Append(snapshots, snap)))

\* trader P&L: filter the date out, push, sort
filterPush(data, snap) ==
    sortByDate(Append(SelectSeq(data, LAMBDA d : d.date # snap.date), snap))

\* what the script reads: JLP swallows a read or parse error and goes on with
\* no snapshots, the trader script lets it reach its catch
snapLoad(scr, f, readThrows) ==
    IF f.st = "absent" THEN [threw |-> FALSE, list |-> <<>>]
    ELSE IF f.st = "ok" /\ ~readThrows THEN [threw |-> FALSE, list |-> f.data]
    ELSE [threw |-> scr # "jlp", list |-> <<>>]

SnapInit ==
    /\ snapScript \in {"jlp", "trader"}
    /\ snapFile \in
         { Absent, Torn, Stored(<<>>),
           Stored(<<[date |-> getESTDate(1), v |-> 0]>>),
           Stored(<<[date |-> getESTDate(1), v |-> 0],
                    [date |-> getESTDate(3), v |-> 0]>>) }
    /\ snapBefore = snapFile
    /\ snapshot = NoSnapshot
    /\ snapExit = None
    /\ snapRuns = 0
    /\ Parked("snapshot")

\* a run of main: when the fetch succeeds, snapshot, load, merge, sort,
\* writeFileSync; when it fails, nothing is read or written, exit status 1
SnapRun ==
    /\ snapRuns < MaxSnapRuns
    /\ \/ \E day \in Days, readThrows \in BOOLEAN :
            LET snap == [date |-> getESTDate(day), v |-> snapRuns + 1]
                read == snapLoad(snapScript, snapFile, readThrows)
            IN  /\ snapshot' = snap
                /\ IF read.threw
                   THEN /\ snapExit' = 1
                        /\ UNCHANGED snapFile
                   ELSE /\ snapExit' = 0
                        /\ snapFile' = Stored(IF snapScript = "jlp"
                                              THEN byDate(read.list, snap)
                                              ELSE filterPush(read.list, snap))
       \/ /\ snapshot' = NoSnapshot
          /\ snapExit' = 1
          /\ UNCHANGED snapFile
    /\ snapBefore' = snapFile
    /\ snapRuns' = snapRuns + 1
    /\ UNCHANGED <<snapScript, dedupVars, alliumVars, fundingVars, stampVars, runs,
                   shellVars>>

SnapNext == SnapRun

SnapSpec == SnapInit /\ [][SnapNext]_vars

\* ------------------------------------------------- the three merges
\* The stamp (find the first index of the date, replace or push, sort), the
\* JLP snapshot script (map keyed by date, sort) and the trader P&L snapshot
\* script (filter the date out, push, sort), applied to one stored list and
\* one new record.  The stored list is any list of up to MaxDedupLen records
\* over as many dates, sorted or not, with or without a date stored twice.
MaxDedupLen == 3

DedupInit ==
    /\ dedupHist \in UNION {[1..n -> {[date |-> getESTDate(day), v |-> v] :
                                        day \in 1..MaxDedupLen, v \in {1, 2}}] :
                             n \in 0..MaxDedupLen}
    /\ dedupRec \in {[date |-> getESTDate(day), v |-> 3] : day \in 1..MaxDedupLen}
    /\ dedupOut = NoOut
    /\ Parked("dedup")

ApplyMerges ==
    /\ dedupOut = NoOut
    /\ dedupOut' = [findIndex |-> merge(dedupHist, dedupRec),
                    map       |-> byDate(dedupHist, dedupRec),
                    filter    |-> filterPush(dedupHist, dedupRec)]
    /\ UNCHANGED <<dedupHist, dedupRec, snapVars, alliumVars, fundingVars,
                   stampVars, runs, shellVars>>

DedupNext == ApplyMerges

DedupSpec == DedupInit /\ [][DedupNext]_vars

\* ------------------------------------------------- the Allium script
\* Two queries, one after the other: daily fees, then daily trader P&L.  Each
\* result is written to its own file, and both are merged into
\* trader-pnl-onchain.json.  The figures of a row stand for what the query
\* returned: they are derived from the number of the run.
MaxAlliumRuns == 2

\* feesRaw.map(...): one row per day of the result, ORDER BY day
feeRows(days, run) ==
    SelectSeq([day \in Days |-> [date          |-> getESTDate(day),
                                 total_fees    |-> 11 * run,
                                 position_fees |-> 10 * run,
                                 swap_fees     |-> run,
                                 close_count   |-> run,
                                 total_txns    |-> 2 * run]],
              LAMBDA row : \E day \in days : row.date = getESTDate(day))

\* pnlRaw.map(...)
pnlRows(days, run) ==
    SelectSeq([day \in Days |-> [date       |-> getESTDate(day),
                                 trader_pnl |-> 0 - run,
                                 fees       |-> 3 * run,
                                 volume     |-> 100 * run,
                                 closes     |-> run]],
              LAMBDA row : \E day \in days : row.date = getESTDate(day))

\* pnlData.forEach: the record of the date is replaced by a new object
RECURSIVE mergePnl(_, _)
mergePnl(map, rows) ==
    IF rows = <<>> THEN map
    ELSE mergePnl(assign(map, [date       |-> rows[1].date,
                               trader_pnl |-> rows[1].trader_pnl,
                               fees       |-> rows[1].fees,
                               volume     |-> rows[1].volume,
                               closes     |-> rows[1].closes]),
                  Tail(rows))

\* feesData.forEach: set the fee fields of the record of the date, or make one
RECURSIVE mergeFees(_, _)
mergeFees(map, rows) ==
    IF rows = <<>> THEN map
    ELSE LET d   == rows[1]
             idx == findIndex(map, d.date)
         IN  mergeFees(IF idx >= 0
                       THEN [map EXCEPT ![idx + 1] =
                               [f \in DOMAIN @ \cup {"total_fees", "position_fees", "swap_fees"} |->
                                  CASE f = "total_fees"    -> d.total_fees
                                    [] f = "position_fees" -> d.position_fees
                                    [] f = "swap_fees"     -> d.swap_fees
                                    [] OTHER               -> @[f]]]
                       ELSE Append(map, [date          |-> d.date,
                                         trader_pnl    |-> 0,
                                         fees          |-> d.position_fees,
                                         total_fees    |-> d.total_fees,
                                         position_fees |-> d.position_fees,
                                         swap_fees     |-> d.swap_fees,
                                         volume        |-> 0,
                                         closes        |-> 0]),
                       Tail(rows))

\* step 3 of main: existing is [] when the file is missing or cannot be parsed
merged(f, readThrows, pnl, fees) ==
    LET existing == IF f.st = "ok" /\ ~readThrows THEN f.data ELSE <<>>
    IN  sortByDate(mergeFees(mergePnl(objectValues(existing), pnl), fees))

AlliumInit ==
    /\ alliumFiles = NoFiles
    /\ alliumBefore = NoFiles
    /\ alliumPc = "fees"
    /\ feesData = <<>>
    /\ pnlData = <<>>
    /\ alliumError = "none"
    /\ alliumExit = None
    /\ alliumRuns = 1
    /\ Parked("allium")

\* the fee query ends: with rows, which are written to allium-fees.json, or
\* with an error, which main().catch turns into an exit status
FeesQueryDone ==
    /\ alliumPc = "fees"
    /\ \/ \E days \in SUBSET Days :
            /\ feesData' = feeRows(days, alliumRuns)
            /\ alliumFiles' = [alliumFiles EXCEPT !.fees = Stored(feesData')]
            /\ alliumPc' = "pnl"
            /\ UNCHANGED <<alliumError, alliumExit>>
       \/ \E error \in {"auth", "other"} :
            /\ alliumError' = error
            /\ alliumExit' = (IF error = "auth" THEN 0 ELSE 1)
            /\ alliumPc' = "done"
            /\ UNCHANGED <<alliumFiles, feesData>>
    /\ UNCHANGED <<alliumBefore, pnlData, alliumRuns>>
    /\ UNCHANGED <<snapVars, dedupVars, fundingVars, stampVars, runs, shellVars>>

\* the P&L query ends: with rows, which are written to allium-trader-pnl.json
\* and, with the fee rows, merged into trader-pnl-onchain.json; or with an error
PnlQueryDone ==
    /\ alliumPc = "pnl"
    /\ \/ \E days \in SUBSET Days, readThrows \in BOOLEAN :
            /\ pnlData' = pnlRows(days, alliumRuns)
            /\ alliumFiles' = [alliumFiles EXCEPT
                                  !.pnl = Stored(pnlData'),
                                  !.onchain = Stored(merged(alliumFiles.onchain,
                                                            readThrows, pnlData',
                                                            feesData))]
            /\ alliumExit' = 0
            /\ UNCHANGED alliumError
       \/ \E error \in {"auth", "other"} :
            /\ alliumError' = error
            /\ alliumExit' = (IF error = "auth" THEN 0 ELSE 1)
            /\ UNCHANGED <<alliumFiles, pnlData>>
    /\ alliumPc' = "done"
    /\ UNCHANGED <<alliumBefore, feesData, alliumRuns>>
    /\ UNCHANGED <<snapVars, dedupVars, fundingVars, stampVars, runs, shellVars>>

\* the next daily run of the script
AlliumRerun ==
    /\ alliumPc = "done" /\ alliumRuns < MaxAlliumRuns
    /\ alliumBefore' = alliumFiles
    /\ alliumPc' = "fees"
    /\ feesData' = <<>>
    /\ pnlData' = <<>>
    /\ alliumError' = "none"
    /\ alliumExit' = None
    /\ alliumRuns' = alliumRuns + 1
    /\ UNCHANGED alliumFiles
    /\ UNCHANGED <<snapVars, dedupVars, fundingVars, stampVars, runs, shellVars>>

AlliumNext ==
    \/ FeesQueryDone
    \/ PnlQueryDone
    \/ AlliumRerun

AlliumSpec == AlliumInit /\ [][AlliumNext]_vars

\* ------------------------------------------------- the funding-rate script
\* One request per market; the records of an answer are grouped by UTC date
\* and averaged, the last 90 dates are kept, and the result is merged with the
\* file, which is rewritten in place.  The script runs once a day.
MaxFundRuns == 3

\* daily.slice(-90)
KEEP_DAYS == 90

\* 2026-02-27, the day of the first run, in days since 1970-01-01
FIRST_RUN_DAY == 20511

\* new Date(ts * 1000).toISOString().slice(0, 10) for ts in seconds, as the
\* digits of YYYY-MM-DD (proleptic Gregorian calendar, UTC)
isoDate(ts) ==
    LET z    == (ts \div 86400) + 719468
        era  == z \div 146097
        doe  == z - era * 146097
        yoe  == (doe - doe \div 1460 + doe \div 36524 - doe \div 146096) \div 365
        doy  == doe - (365 * yoe + yoe \div 4 - yoe \div 100)
        mp   == (5 * doy + 2) \div 153
        day  == doy - (153 * mp + 2) \div 5 + 1
        month == IF mp < 10 THEN mp + 3 ELSE mp - 9
        year == yoe + era * 400 + (IF month <= 2 THEN 1 ELSE 0)
    IN  <<year \div 1000, (year \div 100) % 10, (year \div 10) % 10, year % 10,
          month \div 10, month % 10, day \div 10, day % 10>>

\* what the API answers to one request: "history" is one record a day (at
\* 00:00 UTC) for the 95 days up to the day of the run, "recent" two records a
\* day (at 00:00 and 12:00 UTC) for two days plus a record without oracle
\* price, "none" a body that is no JSON or an empty array
apiRecords(kind, day) ==
    CASE kind = "history" ->
            [i \in 1..95 |->
                [ts |-> (day - 95 + i) * 86400,
                 fundingRate |-> 3000000, oraclePriceTwap |-> 150000000]]
      [] kind = "recent" ->
            [i \in 1..5 |->
                IF i = 5
                THEN [ts |-> day * 86400 + 50000,
                      fundingRate |-> 9000000, oraclePriceTwap |-> 0]
                ELSE [ts |-> (day - 1 + (i - 1) \div 2) * 86400
                               + ((i - 1) % 2) * 43200,
                      fundingRate |-> 3000000 * (1 + 2 * ((i - 1) % 2)),
                      oraclePriceTwap |-> 150000000]]
      [] OTHER -> <<>>

\* list.sort((a, b) => a.date.localeCompare(b.date)); the sort is stable
sortEntries(list) ==
    SortSeq(list, LAMBDA a, b : localeCompare(a.date, b.date) < 0)

\* the sum of the rates of list[from..to]
RECURSIVE sumRates(_, _, _)
sumRates(list, from, to) ==
    IF from > to THEN Num(0, 1)
    ELSE Plus(sumRates(list, from, to - 1), list[to].rate)

\* Number.prototype.toFixed(8), as the number the digits stand for
toFixed8(x) ==
    IF ~IsNum(x) THEN x
    ELSE LET q == (2 * Abs(x.n) * 100000000 + x.d) \div (2 * x.d)
         IN  Num(IF x.n < 0 THEN 0 - q ELSE q, 100000000)

\* Object.entries(dailyMap).sort(...).map(...) for the rated records sorted by
\* date: one entry for each run of records of one date, with the average of
\* their rates
dailyMap(rated) ==
    LET n      == Len(rated)
        marked == [i \in 1..n |->
                     [at    |-> i,
                      first |-> i = 1 \/ rated[i - 1].date # rated[i].date,
                      last  |-> i = n \/ rated[i + 1].date # rated[i].date]]
        firsts == SelectSeq(marked, LAMBDA r : r.first)
        lasts  == SelectSeq(marked, LAMBDA r : r.last)
    IN  [k \in 1..Len(firsts) |->
            LET avgRate == Div(sumRates(rated, firsts[k].at, lasts[k].at),
                               Num(lasts[k].at - firsts[k].at + 1, 1))
            IN  [date          |-> rated[firsts[k].at].date,
                 avgRate       |-> toFixed8(avgRate),
                 annualizedPct |-> toFixed4(TimesInt(avgRate, 24 * 365 * 100))]]

\* processRecords: the records without oracle price are skipped, each other
\* record adds its rate (parseInt(r.fundingRate) / 1e9) / (oracle / 1e6) to
\* the sum of its date, and the entries are sorted by date.  Computed by
\* sorting the rated records by date and averaging each run of one date
processRecords(records) ==
    LET kept == SelectSeq(records, LAMBDA r : r.oraclePriceTwap # 0)
    IN  dailyMap(sortEntries([i \in 1..Len(kept) |->
                                [date |-> isoDate(kept[i].ts),
                                 rate |-> Div(Div(Num(kept[i].fundingRate, 1),
                                                  Num(1000000000, 1)),
                                              Div(Num(kept[i].oraclePriceTwap, 1),
                                                  Num(1000000, 1)))]]))

\* result.markets[name] after the loop over MARKETS, for each day of a run
\* and each answer: nothing for an answer without records, else
\* processRecords(records).slice(-90)
freshSeries ==
    [day \in FIRST_RUN_DAY..(FIRST_RUN_DAY + MaxFundRuns) |->
        [kind \in {"history", "recent", "none"} |->
            LET daily == processRecords(apiRecords(kind, day))
            IN  IF Len(apiRecords(kind, day)) = 0 THEN <<>>
                ELSE slice(daily, Max(Len(daily) - KEEP_DAYS, 0), Len(daily))]]

\* the last of each run of entries of one date in a list sorted by date
lastPerDate(list) ==
    LET n      == Len(list)
        marked == [i \in 1..n |->
                     [entry |-> list[i],
                      last  |-> i = n \/ list[i + 1].date # list[i].date]]
        lasts  == SelectSeq(marked, LAMBDA r : r.last)
    IN  [k \in 1..Len(lasts) |-> lasts[k].entry]

\* a merge in which the stored entry of a date wins
mergeSeries_oldWins(old, new) ==
    IF Len(old) > 0 THEN lastPerDate(sortEntries(new \o old)) ELSE new

\* oldByDate[d.date] = d for the stored entries, then for the fresh ones, and
\* Object.values(oldByDate) sorted by date: computed by sorting the
\* assignments by date, in the order they are made, and keeping the last one
\* of each date.  An empty or missing stored series is left out
mergeSeries(old, new) ==
    IF Len(old) > 0 THEN lastPerDate(sortEntries(old \o new)) ELSE new

FundingInit ==
    /\ fundingFile \in
         { Absent, Torn, Stored(NoMarkets),
           \* a file the script wrote long ago: one entry for SOL-PERP, 200
           \* days old
           Stored([NoMarkets EXCEPT !["SOL-PERP"] =
                     <<[date          |-> isoDate((FIRST_RUN_DAY - 200) * 86400),
                        avgRate       |-> Num(1, 50000),
                        annualizedPct |-> Num(1752, 100)]>>]) }
    /\ fundingExisting = [parsed |-> FALSE, markets |-> NoMarkets]
    /\ fundingFresh = NoMarkets
    /\ fundingExit = None
    /\ fundingRuns = 0
    /\ Parked("funding")

\* the answers to the three requests of a run: the same kind for each market,
\* or one of each kind
Answers ==
    {[name \in MARKETS |-> kind] : kind \in {"history", "recent", "none"}}
        \cup {[name \in MARKETS |-> CASE name = "SOL-PERP" -> "history"
                                      [] name = "BTC-PERP" -> "recent"
                                      [] OTHER             -> "none"],
              [name \in MARKETS |-> CASE name = "SOL-PERP" -> "recent"
                                      [] name = "BTC-PERP" -> "history"
                                      [] OTHER             -> "none"]}

\* a run of main.  When every request is answered, main builds
\* result.markets, merges it with the file if the file can be parsed, and
\* writes; when a request fails, fetch rejects and main().catch exits with 1
FundingRun ==
    /\ fundingRuns < MaxFundRuns
    /\ \/ \E answers \in Answers, readThrows \in BOOLEAN :
            LET day    == FIRST_RUN_DAY + fundingRuns
                result == [name \in MARKETS |-> freshSeries[day][answers[name]]]
                parsed == fundingFile.st = "ok" /\ ~readThrows
            IN  /\ fundingFresh' = result
                /\ fundingExisting' =
                      IF parsed
                      THEN [parsed |-> TRUE, markets |-> fundingFile.data]
                      ELSE [parsed |-> FALSE, markets |-> NoMarkets]
                /\ fundingFile' =
                      Stored(IF parsed
                             THEN [name \in MARKETS |->
                                      mergeSeries(fundingFile.data[name], result[name])]
                             ELSE result)
                /\ fundingExit' = 0
       \/ /\ fundingExisting' = [parsed |-> FALSE, markets |-> NoMarkets]
          /\ fundingFresh' = NoMarkets
          /\ fundingExit' = 1
          /\ UNCHANGED fundingFile
    /\ fundingRuns' = fundingRuns + 1
    /\ UNCHANGED <<snapVars, dedupVars, alliumVars, stampVars, runs, shellVars>>

FundingNext == FundingRun

FundingSpec == FundingInit /\ [][FundingNext]_vars

\* ------------------------------------------------------------------- claims
Kinds == {"ok", "failed", "timeout"}

\* the messages handed to sendTelegram in this run
Notifications == {k \in Kinds : telegram[k] # "none"}

\* the process ended in main, in the handler of main().catch, or in the
\* callback of the global timer
ExitedFromRun == exited \in {"main", "catch", "timer"}

\* the run persisted its history and ended normally
Persisted == exited \in {"main", "natural"}

validSharePrice(x) == IsNum(x) /\ x.n > 0

\* C1: after any sequence of runs from an empty or valid history, the persisted
\* history is strictly ascending by date (string comparison): no two records
\* have the same date.
C1_SortedUnique ==
    file.st = "ok" => StrictlyAscending(file.data)

\* a run has put a record in front of the records of a stored history
C1_Witness ==
    /\ Persisted
    /\ fileAtStart.st = "ok" /\ Len(fileAtStart.data) >= 1
    /\ Len(file.data) = Len(fileAtStart.data) + 1
    /\ file.data[1].date = record.date

\* C2: a record whose sharePrice is non-positive, non-finite or missing never
\* appears in the persisted history.
C2_NoInvalidSharePrice ==
    \A i \in 1..Len(file.data) : validSharePrice(file.data[i].SharePrice)

\* C3: when fetchPublicVaultSharePrice fails, the history file stays exactly
\* as it was when the run started, whatever the secondary fetch does.
C3_PrimaryFailureNoWrite ==
    pubPc = "rejected" =>
        /\ file = fileAtStart
        /\ mainPc \notin {"save", "writing", "rename", "awaitOkSend"}

\* the primary fetch failed, the secondary succeeded, and the run has ended
\* over a stored history
C3_Witness ==
    /\ pubPc = "rejected" /\ exited = "catch"
    /\ privPc = "resolved" /\ privateVault # NoPrivate
    /\ fileAtStart.st = "ok" /\ Len(fileAtStart.data) >= 1

\* C4: the save is crash-safe: NAV_FILE is never a partially written file, and
\* after a kill during the save it is the complete previous history or the
\* complete new one.
C4_CrashSafeSave ==
    /\ file.st # "torn"
    /\ exited = "killed" => file = fileAtStart \/ file = Complete(history)

\* C5: reconciliation is idempotent: merging the record of a run a second
\* time leaves the history of the first merge, and a run that merges a record
\* the loaded history already holds leaves that history as it is.
C5_Idempotent ==
    record # NoRecord =>
        /\ merge(history, record) = history
        /\ record \in RecordsOf(loaded) => history = loaded

\* a second run has merged and persisted the record the history already held
C5_Witness ==
    /\ Persisted
    /\ record # NoRecord /\ record \in RecordsOf(loaded)
    /\ Len(loaded) >= 2
    /\ file = Complete(history)

\* C6: the merge replaces the record of the same date when there is one (same
\* length, the record of that date is the new one) and otherwise adds it (one
\* record more); that history is what a successful run persists.
C6_ReplaceOrAdd ==
    record # NoRecord =>
        /\ record \in RecordsOf(history)
        /\ \A i \in 1..Len(history) :
              history[i].date = record.date => history[i] = record
        /\ Len(history) = IF record.date \in DatesOf(loaded)
                          THEN Len(loaded) ELSE Len(loaded) + 1
        /\ Persisted => file = Complete(history)

\* a run has replaced the stored record of its date by a different one
C6_Witness ==
    /\ Persisted
    /\ record.date \in DatesOf(loaded)
    /\ record \notin RecordsOf(loaded)
    /\ Len(loaded) >= 2

\* C7: a run of the hardened stamp never drops or alters the records of other
\* dates: every record stored before the run is stored after it, unless it is
\* the record of the run's date, which the run's record replaces.
C7_OtherDatesKept ==
    (script = "hardened" /\ fileAtStart.st = "ok" /\ file.st = "ok") =>
        \A i \in 1..Len(fileAtStart.data) :
            \/ fileAtStart.data[i] \in RecordsOf(file.data)
            \/ /\ fileAtStart.data[i].date = record.date
               /\ record.date \in DatesOf(file.data)

\* C8: every terminal state of a run of the hardened stamp (success, abort on
\* error, timeout) has produced exactly one notification.
C8_ExactlyOneNotification ==
    (script = "hardened" /\ ExitedFromRun) => Cardinality(Notifications) = 1

\* C9: a failed write or rename, and a timeout, are each fatal (non-zero exit
\* status) and each is reported to the notification sink before the exit.
C9_FatalAndReported ==
    (script = "hardened" /\ ExitedFromRun) =>
        /\ saveFailed =>
              ExitCode(exited) # 0 /\ "failed" \in Notifications
        /\ timerPc = "awaitSend" =>
              ExitCode(exited) # 0 /\ "timeout" \in Notifications

\* C10: every run eventually terminates with an exit status, also when one
\* dependency (Drift subscribe, vault fetch, private-vault fetch, Telegram
\* send) hangs forever.
C10_RunTerminates == <>(exited # "no")

\* the run has replaced NAV_FILE by its history: saveHistory has returned
SavedThisRun == mainPc = "awaitOkSend"

\* C11: the exit status of a run of the hardened stamp tells its outcome: the
\* run exits 0 exactly when it persisted its record, and a run that exits
\* non-zero has left the persisted history as it was.
C11_ExitStatusTellsOutcome ==
    (script = "hardened" /\ ExitedFromRun) =>
        /\ ExitCode(exited) = 0 <=> SavedThisRun
        /\ ExitCode(exited) # 0 => file = fileAtStart

\* fetchPrivateVaultTVL has resolved to null
SecondaryFailed == privPc = "resolved" /\ privateVault = NoPrivate

\* C12: in the hardened stamp a failure of the private vault fetch never
\* aborts the run (only a failed primary fetch or a failed save reaches the
\* catch handler); the record then holds the primary share price with tvl and
\* rawSharePrice both null, and that record is what a successful run
\* persists; a failure of the primary fetch always aborts the run.
C12_SecondaryNeverAborts ==
    script = "hardened" =>
        /\ mainPc = "awaitFailSend" => pubPc = "rejected" \/ saveFailed
        /\ record # NoRecord =>
              /\ record.SharePrice = publicVault
              /\ record.tvl = Null <=> record.rawSharePrice = Null
              /\ SecondaryFailed => record.tvl = Null
        /\ exited = "main" =>
              /\ file = Complete(history)
              /\ record \in RecordsOf(file.data)
        /\ pubPc = "rejected" =>
              /\ mainPc = "awaitFailSend"
              /\ ExitedFromRun => ExitCode(exited) # 0

\* the private vault fetch failed and the run persisted, over a stored
\* history, a record without tvl and rawSharePrice
C12_Witness ==
    /\ script = "hardened" /\ exited = "main"
    /\ SecondaryFailed
    /\ record.tvl = Null /\ record.rawSharePrice = Null
    /\ validSharePrice(record.SharePrice)
    /\ record \in RecordsOf(file.data)
    /\ fileAtStart.st = "ok" /\ Len(fileAtStart.data) >= 1

\* C13: a notification that is not delivered (the send throws, or the API
\* answers not-ok) never changes the exit status: after the save the run
\* exits 0 with the history persisted, the catch handler exits 1 and the
\* timer callback exits 2.
C13_SendFailureKeepsStatus ==
    script \in {"hardened", "vault"} =>
        /\ telegram.ok = "failed" =>
              /\ exited = "main" /\ ExitCode(exited) = 0
              /\ file = Complete(history)
        /\ telegram.failed = "failed" =>
              exited = "catch" /\ ExitCode(exited) = 1
        /\ telegram.timeout = "failed" =>
              exited = "timer" /\ ExitCode(exited) = 2

\* the record was persisted over a stored history, the success message was
\* not delivered, and the run has ended
C13_Witness ==
    /\ script = "hardened"
    /\ telegram.ok = "failed" /\ exited = "main"
    /\ record \in RecordsOf(file.data)
    /\ fileAtStart.st = "ok" /\ file # fileAtStart

\* C14: in the hardened stamp a share price that passed the guards and
\* deviates more than 5% from the trailing mean only raises a warning: the
\* record is merged, the deviation never sends the run to the catch handler,
\* the history is persisted, and the success message carries the alert (and
\* carries none when there is no deviation).
C14_DeviationOnlyWarns ==
    script = "hardened" =>
        /\ deviationAlert =>
              /\ validSharePrice(record.SharePrice)
              /\ record \in RecordsOf(history)
              /\ mainPc = "awaitFailSend" => saveFailed
        /\ telegram.ok # "none" =>
              /\ telegram.msg.alert <=> deviationAlert
              /\ file = Complete(history)

\* a deviating price was persisted over a stored history and the run ended
\* with the alert in its success message
C14_Witness ==
    /\ script = "hardened" /\ exited = "main"
    /\ deviationAlert /\ telegram.msg.alert
    /\ record \in RecordsOf(file.data)
    /\ fileAtStart.st = "ok" /\ Len(fileAtStart.data) >= 1

\* the prices of the records strictly before today's in the sorted history
PriorPrices ==
    mapSharePrice(slice(history, 0, findIndex(history, record.date)))

\* the last k of them
LastPrior(k) == slice(PriorPrices, Max(0, Len(PriorPrices) - k), Len(PriorPrices))

\* C15: the deviation warning fires exactly when |newPrice - mean| / mean >
\* 0.05, mean being the arithmetic mean of the sharePrice of the last 5
\* records strictly before the new one in the sorted history; without a prior
\* record it does not fire.  Stated for stored prices that are all positive.
C15_DeviationRule ==
    (record # NoRecord /\ \A i \in 1..Len(loaded) : validSharePrice(loaded[i].SharePrice)) =>
        (deviationAlert <=>
            (PriorPrices # <<>> /\ deviates(record.SharePrice, LastPrior(5))))

\* C16: the day change is (today - prev) / prev * 100, prev being the record
\* that precedes today's in the sorted history, when there is such a record
\* and its price is positive; otherwise it is null and reported as N/A.  For
\* the history [2026-02-17 at 1.20] and the record 2026-02-18 at 1.25 the
\* reported change is 4.1667.
C16_DayChange ==
    record # NoRecord =>
        LET todayIdx == findIndex(history, record.date)
            today    == record.SharePrice
            prev     == history[todayIdx].SharePrice
        IN  /\ IF todayIdx > 0 /\ validSharePrice(prev)
               THEN /\ dayChange = Num(100 * (today.n * prev.d - prev.n * today.d),
                                       today.d * prev.n)
                    /\ telegram.msg.change = toFixed4(dayChange)
               ELSE /\ dayChange = Null
                    /\ telegram.msg.change = NA
            /\ (/\ loaded = <<stamped(FirstCalcDay, Num(120, 100))>>
                /\ record = stamped(FirstCalcDay + 1, Num(125, 100)))
               => telegram.msg.change = Num(41667, 10000)

\* the example: 2026-02-17 at 1.20 is stored, 2026-02-18 at 1.25 is stamped
C16_Witness ==
    /\ script = "hardened"
    /\ loaded = <<stamped(FirstCalcDay, Num(120, 100))>>
    /\ getESTDate(FirstCalcDay) = <<2, 0, 2, 6, 0, 2, 1, 7>>
    /\ record = stamped(FirstCalcDay + 1, Num(125, 100))
    /\ history = <<loaded[1], record>>
    /\ dayChange = Num(25, 6)
    /\ telegram.msg.change = Num(41667, 10000)

\* C17: what a consumer reads from NAV_FILE at any moment of a run is a
\* complete document: the history from before the run or the history the
\* run persists, never a truncated or partly written file.
C17_ReaderSeesCompleteHistory ==
    exited = "no" =>
        /\ file.st # "torn"
        /\ file = fileAtStart \/ file = Complete(history)

\* C20: whenever the hardened stamp has sent a message saying that the share
\* price was NOT recorded (FAILED from main().catch, TIMED OUT from the global
\* timer), the run has not modified the persisted history.
C20_NotRecordedIsTrue ==
    (script = "hardened" /\ {"failed", "timeout"} \cap Notifications # {}) =>
        file = fileAtStart

\* C18: once two overlapping runs of the hardened stamp have both finished
\* successfully, NAV_FILE is a complete history, strictly ascending by date,
\* that holds every date persisted before and the record of each run (or, for
\* two runs of the same date, the record of the other run in its place).
C18_RenameIsEnough ==
    (\A r \in Runs : runs[r].pc = "done") =>
        /\ file.st = "ok"
        /\ StrictlyAscending(file.data)
        /\ DatesOf(fileAtStart.data) \subseteq DatesOf(file.data)
        /\ \A r \in Runs :
              \/ runs[r].record \in RecordsOf(file.data)
              \/ \E q \in Runs :
                    /\ runs[q].record.date = runs[r].record.date
                    /\ runs[q].record \in RecordsOf(file.data)

\* the failed steps among steps 1 to 5
CountedFailures == {s \in 1..5 : outcome[s] = "failed"}

\* C19: daily-data-fetch.sh runs its steps one after another whatever the
\* outcome of the steps before (no fetch, nor the status file, nor the commit
\* is skipped), and its exit status is the number of failed steps among steps
\* 1 to 5; a failure of the DefiLlama step is not counted.
C19_AllStepsRunExitCounts ==
    /\ \A s \in 1..COMMIT_STEP : s < step <=> outcome[s] # "pending"
    /\ ERRORS = Cardinality(CountedFailures)
    /\ statusFile \in {None, ERRORS}
    /\ commitMsg \in {None, ERRORS}
    /\ exitStatus # None =>
          /\ exitStatus = Cardinality(CountedFailures)
          /\ \A s \in 1..COMMIT_STEP : outcome[s] # "pending"

\* the script has ended with status 2 after steps 1 and 5 and the DefiLlama
\* step failed; the status file and the commit were made
C19_Witness ==
    /\ exitStatus = 2
    /\ outcome[1] = "failed" /\ outcome[5] = "failed" /\ outcome[6] = "failed"
    /\ outcome[2] = "ok" /\ outcome[3] = "ok" /\ outcome[4] = "ok"
    /\ statusFile = 2 /\ commitMsg = 2

\* the save of this run is complete: the history file is the one it wrote
SaveComplete == mainPc = "awaitOkSend" \/ exited = "natural"

\* C21: when the history file exists but cannot be read or parsed, loadHistory
\* returns the empty history and the run goes on: what loadHistory returns is
\* the stored history or nothing, a torn file gives nothing, and a run that
\* loaded nothing persists a history of exactly one record, its own, so that
\* every date stored before is gone from the file.
C21_UnreadableStartsFresh ==
    record # NoRecord =>
        /\ loaded = <<>> \/ (fileAtStart.st = "ok" /\ loaded = fileAtStart.data)
        /\ fileAtStart.st = "torn" => loaded = <<>>
        /\ loaded = <<>> =>
              /\ history = <<record>>
              /\ SaveComplete => file = Complete(<<record>>)

\* a run has saved over a stored history of another date that it could not read
C21_Witness ==
    /\ SaveComplete /\ loaded = <<>>
    /\ fileAtStart.st = "ok" /\ fileAtStart.data # <<>>
    /\ record.date \notin DatesOf(fileAtStart.data)
    /\ file = Complete(<<record>>)

\* C22: in the Prime Number stamp a fetched SharePrice or TVL that is no
\* number, zero or negative never makes a record: the run ends in the handler
\* of main().catch, with exit status 1, before the history is loaded or
\* written.  A TVL that is more than 40% under the one of the last stored entry
\* only warns: the record is merged, and the history a finished run leaves in
\* the file holds it.
C22_PrimeValidation ==
    script = "prime" =>
        /\ record # NoRecord =>
              /\ ~notPositiveNumber(record.rawSharePrice)
              /\ ~notPositiveNumber(record.tvl)
        /\ (exited = "catch" /\ ~saveFailed) =>
              /\ ExitCode(exited) = 1
              /\ record = NoRecord /\ loaded = <<>> /\ history = <<>>
              /\ file = fileAtStart
        /\ (record # NoRecord /\ tvlDropWarns(loaded, record.tvl)) =>
              /\ history = merge(loaded, record)
              /\ exited = "natural" => file = Complete(history)

\* a run of the Prime Number stamp has written a record whose TVL is half the
\* TVL of the last stored entry
C22_Witness ==
    /\ script = "prime" /\ exited = "natural"
    /\ tvlDropWarns(loaded, record.tvl)
    /\ \E i \in 1..Len(file.data) : file.data[i] = Serialize(<<record>>)[1]

\* C23: in the hardened stamp a vault reading with totalShares <= 0 or a share
\* price above 100 makes fetchPublicVaultSharePrice throw: a run whose public
\* fetch has thrown hands a failure notification to sendTelegram, leaves the
\* history file as it was and, when it ends, ends with exit status 1; every
\* record of the persisted history has 0 < SharePrice <= 100.
C23_GuardsAbortWithStatusOne ==
    script = "hardened" =>
        /\ pubPc = "rejected" =>
              /\ telegram.failed # "none"
              /\ file = fileAtStart
              /\ ExitedFromRun => ExitCode(exited) = 1
        /\ file.st = "ok" =>
              \A i \in 1..Len(file.data) :
                  /\ Gt(file.data[i].SharePrice, Num(0, 1))
                  /\ ~Gt(file.data[i].SharePrice, Num(100, 1))

\* C26: after a successful run of the JLP snapshot script or of the trader P&L
\* snapshot script the file holds at most one snapshot per date, ascending by
\* date, the snapshot of the run's date is the one this run took, and the
\* snapshots of the other dates are those the file held before.
C26_OnePerDateOthersKept ==
    snapExit = 0 =>
        /\ snapFile.st = "ok"
        /\ StrictlyAscending(snapFile.data)
        /\ \E i \in 1..Len(snapFile.data) : snapFile.data[i] = snapshot
        /\ snapBefore.st = "ok" =>
              \A i \in 1..Len(snapBefore.data) :
                  snapBefore.data[i].date # snapshot.date =>
                      \E j \in 1..Len(snapFile.data) :
                          snapFile.data[j] = snapBefore.data[i]

\* the dates of a list are unique
UniqueDates(list) ==
    \A i, j \in 1..Len(list) : list[i].date = list[j].date => i = j

\* C30: on a stored history with unique dates, sorted or not, and any new
\* record the three merges return the same sequence; two of them return
\* different sequences only when the stored history holds a date twice.
C30_MergesAgree ==
    (dedupOut # NoOut /\ UniqueDates(dedupHist)) =>
        /\ dedupOut.findIndex = dedupOut.map
        /\ dedupOut.map = dedupOut.filter

\* the merges were applied to an unsorted history of three dates that holds
\* the date of the new record
C30_Witness ==
    /\ dedupOut # NoOut
    /\ UniqueDates(dedupHist) /\ ~StrictlyAscending(dedupHist)
    /\ dedupRec.date \in DatesOf(dedupHist)
    /\ Len(dedupOut.map) = 3

\* C27: when the Allium script fails with an authentication or subscription
\* error it exits with status 0 and the three data files are as they were
\* before the run, at whichever of the two queries the error occurred.
C27_AuthErrorKeepsFiles ==
    alliumError = "auth" =>
        /\ alliumExit = 0
        /\ alliumFiles = alliumBefore

\* the dates of the rows of a fresh result
FreshDates == DatesOf(feesData) \cup DatesOf(pnlData)

\* the run went through: both queries answered, the three files written
AlliumWritten == alliumPc = "done" /\ alliumError = "none"

\* C28: the merge into trader-pnl-onchain.json keeps older data: after a run
\* that went through, every record the file held before whose date is in
\* neither fresh result is in the file unchanged, and the file is ascending by
\* date with one record per date.
C28_OlderDataKept ==
    AlliumWritten =>
        /\ StrictlyAscending(alliumFiles.onchain.data)
        /\ \A i \in 1..Len(alliumBefore.onchain.data) :
              alliumBefore.onchain.data[i].date \notin FreshDates =>
                  \E j \in 1..Len(alliumFiles.onchain.data) :
                      alliumFiles.onchain.data[j] = alliumBefore.onchain.data[i]

\* the fields the fee merge sets
FeeFields == {"total_fees", "position_fees", "swap_fees"}

\* C29: a record of trader-pnl-onchain.json keeps the fee fields it has: after
\* a run that went through, each date whose record had total_fees,
\* position_fees and swap_fees before still has a record with the three
\* fields, also when the date is in the fresh P&L result and not in the fresh
\* fee result.
C29_FeeFieldsKept ==
    AlliumWritten =>
        \A i \in 1..Len(alliumBefore.onchain.data) :
            FeeFields \subseteq DOMAIN alliumBefore.onchain.data[i] =>
                \E j \in 1..Len(alliumFiles.onchain.data) :
                    /\ alliumFiles.onchain.data[j].date = alliumBefore.onchain.data[i].date
                    /\ FeeFields \subseteq DOMAIN alliumFiles.onchain.data[j]

\* C24: when the funding-rate script has parsed the existing file, the series
\* it writes for each market is the union by date of the stored entries and
\* the fresh ones: strictly ascending by date, every fresh entry in it, and
\* every stored entry whose date has no fresh entry in it; no stored date is
\* lost, also when the request of the market gave no records.
C24_UnionByDateFreshWins ==
    (fundingExit = 0 /\ fundingExisting.parsed) =>
        \A name \in MARKETS :
            LET old == fundingExisting.markets[name]
                new == fundingFresh[name]
                out == fundingFile.data[name]
            IN  /\ StrictlyAscending(out)
                /\ DatesOf(out) = DatesOf(old) \cup DatesOf(new)
                /\ RecordsOf(new) \subseteq RecordsOf(out)
                /\ \A i \in 1..Len(old) :
                      old[i].date \notin DatesOf(new) => old[i] \in RecordsOf(out)

\* a run has merged a fresh series into a stored one that has another entry
\* for one of its dates and an entry of a date of its own, and has kept the
\* stored series of a market whose request gave no records
C24_Witness ==
    /\ fundingExit = 0 /\ fundingExisting.parsed
    /\ \E name \in MARKETS :
          /\ fundingFresh[name] = <<>>
          /\ fundingExisting.markets[name] # <<>>
          /\ fundingFile.data[name] = fundingExisting.markets[name]
    /\ \E name \in MARKETS :
          LET old == fundingExisting.markets[name]
              new == fundingFresh[name]
          IN  /\ \E i \in 1..Len(old), j \in 1..Len(new) :
                    old[i].date = new[j].date /\ old[i] # new[j]
              /\ DatesOf(old) \ DatesOf(new) # {}

\* C25: the funding-rate script keeps the last 90 days: each series of the
\* written file holds at most 90 entries.
C25_AtMostNinetyDays ==
    fundingFile.st = "ok" =>
        \A name \in MARKETS : Len(fundingFile.data[name]) <= KEEP_DAYS

====
